---- MODULE Spec2Model ----
(***************************************************************************)
(* Model of the auto-call sequencing engine of the useCallSystem hook      *)
(* (src/unnamed/part_000, the revision at lines 404-864).                  *)
(*                                                                         *)
(* React state is held in the variables employees, isAutoCallActive,       *)
(* currentCallingId, currentEmployeeIndex and currentRound                 *)
(* (stats.currentRound); the two refs are isAutoCallingRef and             *)
(* autoCallTimeoutRef.                                                     *)
(*                                                                         *)
(* processAutoCall is a useCallback closure over `employees` and           *)
(* `stats.currentRound`.  startAutoCalling hands the closure of the render *)
(* in which it was clicked to setTimeout, and the recursive calls inside   *)
(* processAutoCall refer to the binding of that same render, i.e. to the   *)
(* closure itself.  A chain of dispatch steps therefore reads, for its     *)
(* whole life, the employees array and the round number of the render in   *)
(* which start() was clicked; its writes go through the functional         *)
(* updaters setEmployees(prev => ..) / setStats(prev => ..) and land on    *)
(* the live state.  Each chain record keeps that captured pair.            *)
(*                                                                         *)
(* A state update and the re-render it causes are one step: an event       *)
(* handler of the UI always runs the closures of the latest state.         *)
(***************************************************************************)
EXTENDS Integers, Sequences, FiniteSets, TLC

\* ---- bounds of the model ------------------------------------------------
MaxContacts == 2      \* contacts the store returns on load
MaxAttempts == 1      \* callAttempts is counted up to this value
MaxRound    == 3      \* start() is only exercised while currentRound < MaxRound
MaxChains   == 1      \* chains of dispatch steps alive together
MaxManual   == 1      \* manual call attempts in flight together
MaxLate     == 1      \* transport calls still outstanding after their deadline
MaxRestart  == 2      \* chains alive together in the stop()/start() scenario;
                      \*   never below MaxChains

VARIABLES
  employees,            \* useState<Employee[]>: <<[id, status, callAttempts]>>
  isAutoCallActive,     \* useState(false)
  isAutoCallingRef,     \* useRef(false)
  autoCallTimeoutRef,   \* useRef(null): 0 = null, c = the timer last set by chain c
  currentCallingId,     \* useState(null): 0 = null
  currentEmployeeIndex, \* useState(0)
  currentRound,         \* stats.currentRound
  chains,               \* the dispatch chains: position of each processAutoCall closure
  manualCalls,          \* ids with a callEmployee attempt started from a client card
  loaded,               \* the mount effect's loadEmployees() has completed
  resetting,            \* resetSystem() is awaiting the store
  stats,                \* useState<CallSystemStats>: the counts updateStats writes
  lateTransport,        \* ids whose callClient() promise is still outstanding after
                        \*   the deadline settled the attempt
  lastOp,               \* history: the operation of the last step (start, startRejected,
                        \*   stop, autostop, manual, timeout, error, late, noop,
                        \*   delete, resetBegin, resetFailed, reset;
                        \*   "other" for the rest)
  roundTargets          \* history: ids pending or missed when the current round began

runVars  == <<employees, isAutoCallActive, isAutoCallingRef, autoCallTimeoutRef,
              currentCallingId, currentEmployeeIndex, currentRound, chains>>
progVars == <<runVars, manualCalls, loaded, resetting, lateTransport>>
vars     == <<progVars, stats, lastOp, roundTargets>>

Ids      == 1..MaxContacts
ChainIds == 1..MaxRestart
Status   == {"pending", "calling", "answered", "missed"}

\* ---- pure helpers ---------------------------------------------------------

\* the predicate of employees.filter(emp => emp.status === 'pending' || emp.status === 'missed')
IsUnanswered(status) == status = "pending" \/ status = "missed"

Unanswered(emps) == SelectSeq(emps, LAMBDA emp : IsUnanswered(emp.status))

IdsOf(emps) == [i \in DOMAIN emps |-> emps[i].id]
IdSet(emps) == {emps[i].id : i \in DOMAIN emps}

\* employees.findIndex(emp => emp.id === id); 0-based, -1 when absent
FindIndex(emps, id) ==
  IF \E i \in DOMAIN emps : emps[i].id = id
  THEN (CHOOSE i \in DOMAIN emps :
          emps[i].id = id /\ \A j \in DOMAIN emps : emps[j].id = id => i <= j) - 1
  ELSE -1

\* callAttempts + 1, counted up to MaxAttempts
Bump(n) == IF n < MaxAttempts THEN n + 1 ELSE n

updateEmployeeStatus_NoMatchHitsAll(emps, employeeId, status) ==
  [i \in DOMAIN emps |->
     IF emps[i].id = employeeId \/ employeeId \notin {emps[j].id : j \in DOMAIN emps}
     THEN [emps[i] EXCEPT !.status = status,
                          !.callAttempts = IF status = "calling" THEN @ ELSE Bump(@)]
     ELSE emps[i]]

updateEmployeeStatus_CountsCalling(emps, employeeId, status) ==
  [i \in DOMAIN emps |->
     IF emps[i].id = employeeId
     THEN [emps[i] EXCEPT !.status = status, !.callAttempts = Bump(@)]
     ELSE emps[i]]

updateEmployeeStatus(emps, employeeId, status) ==
  [i \in DOMAIN emps |->
     IF emps[i].id = employeeId
     THEN [emps[i] EXCEPT !.status = status,
                          !.callAttempts = IF status = "calling" THEN @ ELSE Bump(@)]
     ELSE emps[i]]

\* updateStats: the counts of the employees array of the render it runs in
updateStats_CountsCallingAsPending(emps) ==
  [totalEmployees |-> Len(emps),
   answered |-> Cardinality({i \in DOMAIN emps : emps[i].status = "answered"}),
   missed   |-> Cardinality({i \in DOMAIN emps : emps[i].status = "missed"}),
   pending  |-> Cardinality({i \in DOMAIN emps : emps[i].status \in {"pending", "calling"}})]

updateStats(emps) ==
  [totalEmployees |-> Len(emps),
   answered |-> Cardinality({i \in DOMAIN emps : emps[i].status = "answered"}),
   missed   |-> Cardinality({i \in DOMAIN emps : emps[i].status = "missed"}),
   pending  |-> Cardinality({i \in DOMAIN emps : emps[i].status = "pending"})]

\* useEffect(() => { updateStats(); }, [employees]): runs in the render that
\* follows a change of employees
StatsEffect == stats' = IF employees' # employees THEN updateStats(employees') ELSE stats

\* The employees array a processAutoCall closure holds is frozen, so the value
\* of the filter predicate on each of its elements is fixed at capture: the
\* chain keeps, per element, the id and that value.
Captured(emps) ==
  [i \in DOMAIN emps |-> [id |-> emps[i].id, unanswered |-> IsUnanswered(emps[i].status)]]

CapturedUnanswered(cap) == SelectSeq(cap, LAMBDA emp : emp.unanswered)

IdleChain == [pc |-> "idle", idx |-> 0, employees |-> <<>>, currentRound |-> 0, callee |-> 0]

\* clientsToCall of processAutoCall, from the closure's employees and round
clientsToCall(ch) ==
  IF ch.currentRound = 1 THEN ch.employees ELSE CapturedUnanswered(ch.employees)

\* ---- stopAutoCalling as a function of the state --------------------------------
RunState ==
  [employees |-> employees, isAutoCallActive |-> isAutoCallActive,
   isAutoCallingRef |-> isAutoCallingRef, autoCallTimeoutRef |-> autoCallTimeoutRef,
   currentCallingId |-> currentCallingId, currentEmployeeIndex |-> currentEmployeeIndex,
   currentRound |-> currentRound, chains |-> chains]

\* clearTimeout(h): cancels chain h's timer when it is still pending
clearTimeout(chs, h) ==
  [c \in DOMAIN chs |-> IF c = h /\ chs[c].pc = "timer" THEN IdleChain ELSE chs[c]]

stopAutoCalling_KeepsRef(s) ==
  [s EXCEPT !.isAutoCallActive = FALSE,
            !.chains = IF s.autoCallTimeoutRef # 0
                       THEN clearTimeout(s.chains, s.autoCallTimeoutRef) ELSE s.chains,
            !.autoCallTimeoutRef = 0,
            !.currentCallingId = 0]

stopAutoCalling_Toggles(s) ==
  [s EXCEPT !.isAutoCallActive = ~s.isAutoCallActive,
            !.isAutoCallingRef = ~s.isAutoCallingRef,
            !.chains = IF s.autoCallTimeoutRef # 0
                       THEN clearTimeout(s.chains, s.autoCallTimeoutRef) ELSE s.chains,
            !.autoCallTimeoutRef = 0,
            !.currentCallingId = 0]

stopAutoCalling_ResetsRound(s) ==
  [s EXCEPT !.isAutoCallActive = FALSE,
            !.isAutoCallingRef = FALSE,
            !.chains = IF s.autoCallTimeoutRef # 0
                       THEN clearTimeout(s.chains, s.autoCallTimeoutRef) ELSE s.chains,
            !.autoCallTimeoutRef = 0,
            !.currentCallingId = 0,
            !.currentRound = 1,
            !.currentEmployeeIndex = 0]

stopAutoCalling(s) ==
  [s EXCEPT !.isAutoCallActive = FALSE,
            !.isAutoCallingRef = FALSE,
            !.chains = IF s.autoCallTimeoutRef # 0
                       THEN clearTimeout(s.chains, s.autoCallTimeoutRef) ELSE s.chains,
            !.autoCallTimeoutRef = 0,
            !.currentCallingId = 0]

ApplyRunState(t) ==
  /\ employees' = t.employees
  /\ isAutoCallActive' = t.isAutoCallActive
  /\ isAutoCallingRef' = t.isAutoCallingRef
  /\ autoCallTimeoutRef' = t.autoCallTimeoutRef
  /\ currentCallingId' = t.currentCallingId
  /\ currentEmployeeIndex' = t.currentEmployeeIndex
  /\ currentRound' = t.currentRound
  /\ chains' = t.chains

\* ---- initial state ---------------------------------------------------------
Init ==
  /\ employees = <<>>
  /\ isAutoCallActive = FALSE
  /\ isAutoCallingRef = FALSE
  /\ autoCallTimeoutRef = 0
  /\ currentCallingId = 0
  /\ currentEmployeeIndex = 0
  /\ currentRound = 1
  /\ chains = [c \in ChainIds |-> IdleChain]
  /\ manualCalls = {}
  /\ loaded = FALSE
  /\ resetting = FALSE
  /\ stats = [totalEmployees |-> 0, answered |-> 0, missed |-> 0, pending |-> 0]
  /\ lateTransport = {}
  /\ lastOp = "other"
  /\ roundTargets = <<>>

\* ---- loadEmployees (mount effect) -------------------------------------------
\* supabaseService.getClients() answers with n contacts in stored order; a
\* contact that was called before comes back answered or missed.
LoadEmployees ==
  /\ ~loaded
  /\ \E n \in 0..MaxContacts :
       \E st \in [1..n -> {"pending", "answered", "missed"}] :
         employees' = [i \in 1..n |->
                         [id |-> i, status |-> st[i],
                          callAttempts |-> IF st[i] = "pending" THEN 0 ELSE 1]]
  /\ loaded' = TRUE
  /\ lastOp' = "other"
  /\ UNCHANGED <<isAutoCallActive, isAutoCallingRef, autoCallTimeoutRef,
                 currentCallingId, currentEmployeeIndex, currentRound, chains,
                 manualCalls, resetting, lateTransport, roundTargets>>
  /\ StatsEffect

\* ---- startAutoCalling -------------------------------------------------------
FreeChain == CHOOSE c \in ChainIds :
               chains[c].pc = "idle" /\ \A d \in ChainIds : chains[d].pc = "idle" => c <= d

\* The timer callback closes over this render's processAutoCall, which closes
\* over this render's employees and stats.currentRound.
BeginRun ==
  /\ \E c \in ChainIds : chains[c].pc = "idle"
  /\ currentRound < MaxRound
  /\ isAutoCallActive' = TRUE
  /\ isAutoCallingRef' = TRUE
  /\ currentRound' = 1
  /\ currentEmployeeIndex' = 0
  /\ chains' = [chains EXCEPT ![FreeChain] =
                  [pc |-> "timer", idx |-> 0, employees |-> Captured(employees),
                   currentRound |-> currentRound, callee |-> 0]]
  /\ autoCallTimeoutRef' = FreeChain
  /\ roundTargets' = IdsOf(Unanswered(employees))
  /\ UNCHANGED <<employees, currentCallingId, manualCalls, loaded, resetting, lateTransport>>

startAutoCalling_NoEmptyCheck ==
  IF isAutoCallActive
  THEN UNCHANGED <<progVars, roundTargets>>
  ELSE BeginRun

startAutoCalling ==
  IF isAutoCallActive
  THEN UNCHANGED <<progVars, roundTargets>>
  ELSE IF Len(employees) = 0
  THEN UNCHANGED <<progVars, roundTargets>>
  ELSE BeginRun

\* chains whose timer is pending or whose call attempt is in flight
ChainsAlive == Cardinality({c \in ChainIds : chains[c].pc # "idle"})

\* the "Start" button; an accepted start() needs room for one more chain
StartWithin(bound) == isAutoCallActive \/ Len(employees) = 0 \/ ChainsAlive < bound

StartClicked ==
  /\ startAutoCalling
  /\ lastOp' = IF ~isAutoCallActive /\ Len(employees) > 0 THEN "start" ELSE "startRejected"
  /\ StatsEffect

Start ==
  /\ StartWithin(MaxChains)
  /\ StartClicked

\* start() while a call attempt of a stopped run may still be in flight
StartAgain ==
  /\ StartWithin(MaxRestart)
  /\ StartClicked

\* ---- stop() from the UI -------------------------------------------------------
Stop ==
  /\ ApplyRunState(stopAutoCalling(RunState))
  /\ lastOp' = "stop"
  /\ UNCHANGED <<manualCalls, loaded, resetting, lateTransport, roundTargets>>
  /\ StatsEffect

\* ---- processAutoCall(employeeIndex), run by chain c ---------------------------
\* The step runs to its first await: it either returns, stops the run, starts
\* the next round, or dials (callEmployee up to its await).
ScheduleNext(c, i) ==
  /\ chains' = [chains EXCEPT ![c].pc = "timer", ![c].idx = i, ![c].callee = 0]
  /\ autoCallTimeoutRef' = c

processAutoCall(c, employeeIndex) ==
  LET ch   == chains[c]
      emps == ch.employees
      list == clientsToCall(ch)
      rest == [chains EXCEPT ![c] = IdleChain]
  IN
  IF ~isAutoCallingRef \/ Len(emps) = 0
  THEN /\ chains' = rest
       /\ lastOp' = "other"
       /\ UNCHANGED <<employees, isAutoCallActive, isAutoCallingRef, autoCallTimeoutRef,
                      currentCallingId, currentEmployeeIndex, currentRound,
                      manualCalls, loaded, resetting, lateTransport, roundTargets>>
  ELSE IF Len(list) = 0 \/ (employeeIndex >= Len(list) /\ Len(CapturedUnanswered(emps)) = 0)
  THEN /\ ApplyRunState(stopAutoCalling([RunState EXCEPT !.chains = rest]))
       /\ lastOp' = "autostop"
       /\ UNCHANGED <<manualCalls, loaded, resetting, lateTransport, roundTargets>>
  ELSE IF employeeIndex >= Len(list)
  THEN /\ currentRound' = ch.currentRound + 1
       /\ ScheduleNext(c, 0)
       /\ lastOp' = "other"
       /\ roundTargets' = IdsOf(Unanswered(employees))
       /\ UNCHANGED <<employees, isAutoCallActive, isAutoCallingRef, currentCallingId,
                      currentEmployeeIndex, manualCalls, loaded, resetting, lateTransport>>
  ELSE LET currentClient == list[employeeIndex + 1]
           actualIndex   == FindIndex(emps, currentClient.id)
       IN
       IF actualIndex = -1
       THEN /\ ScheduleNext(c, employeeIndex + 1)
            /\ lastOp' = "other"
            /\ UNCHANGED <<employees, isAutoCallActive, isAutoCallingRef, currentCallingId,
                           currentEmployeeIndex, currentRound, manualCalls, loaded, resetting,
                           lateTransport, roundTargets>>
       ELSE /\ currentEmployeeIndex' = actualIndex
            /\ employees' = updateEmployeeStatus(employees, currentClient.id, "calling")
            /\ currentCallingId' = currentClient.id
            /\ chains' = [chains EXCEPT ![c].pc = "call", ![c].callee = currentClient.id]
            /\ lastOp' = "other"
            /\ UNCHANGED <<isAutoCallActive, isAutoCallingRef, autoCallTimeoutRef,
                           currentRound, manualCalls, loaded, resetting, lateTransport, roundTargets>>

\* the setTimeout callback: if (isAutoCallingRef.current) processAutoCall(i)
DispatchStep_StepsOn(c) ==
  /\ chains[c].pc = "timer"
  /\ IF isAutoCallingRef
     THEN processAutoCall(c, chains[c].idx)
     ELSE /\ chains' = [chains EXCEPT ![c].idx = @ + 1]
          /\ lastOp' = "noop"
          /\ UNCHANGED <<employees, isAutoCallActive, isAutoCallingRef, autoCallTimeoutRef,
                         currentCallingId, currentEmployeeIndex, currentRound,
                         manualCalls, loaded, resetting, lateTransport, roundTargets>>
  /\ StatsEffect

DispatchStep(c) ==
  /\ chains[c].pc = "timer"
  /\ IF isAutoCallingRef
     THEN processAutoCall(c, chains[c].idx)
     ELSE /\ chains' = [chains EXCEPT ![c] = IdleChain]
          /\ lastOp' = "noop"
          /\ UNCHANGED <<employees, isAutoCallActive, isAutoCallingRef, autoCallTimeoutRef,
                         currentCallingId, currentEmployeeIndex, currentRound,
                         manualCalls, loaded, resetting, lateTransport, roundTargets>>
  /\ StatsEffect

\* ---- callEmployee --------------------------------------------------------------
\* Call attempts in flight: owner c > 0 is the chain awaiting it, owner 0 a
\* manual call from a client card.
Attempts ==
  {[owner |-> c, id |-> chains[c].callee] : c \in {d \in ChainIds : chains[d].pc = "call"}}
    \cup {[owner |-> 0, id |-> i] : i \in manualCalls}

\* the "Call" button of a client card
ManualCall(id) ==
  /\ id \in IdSet(employees)
  /\ id \notin manualCalls
  /\ Cardinality(manualCalls) < MaxManual
  /\ employees' = updateEmployeeStatus(employees, id, "calling")
  /\ currentCallingId' = id
  /\ manualCalls' = manualCalls \cup {id}
  /\ lastOp' = "manual"
  /\ UNCHANGED <<isAutoCallActive, isAutoCallingRef, autoCallTimeoutRef,
                 currentEmployeeIndex, currentRound, chains, loaded, resetting, lateTransport,
                 roundTargets>>
  /\ StatsEffect

\* The race is settled with callResult: the final status is written, the
\* marker cleared, and the awaiting processAutoCall (if any) resumes.
Resume_NoFlagCheck(a) ==
  IF a.owner = 0
  THEN /\ manualCalls' = manualCalls \ {a.id}
       /\ UNCHANGED <<chains, autoCallTimeoutRef>>
  ELSE /\ UNCHANGED manualCalls
       /\ ScheduleNext(a.owner, chains[a.owner].idx + 1)

Resume(a) ==
  IF a.owner = 0
  THEN /\ manualCalls' = manualCalls \ {a.id}
       /\ UNCHANGED <<chains, autoCallTimeoutRef>>
  ELSE /\ UNCHANGED manualCalls
       /\ IF isAutoCallingRef
          THEN ScheduleNext(a.owner, chains[a.owner].idx + 1)
          ELSE /\ chains' = [chains EXCEPT ![a.owner] = IdleChain]
               /\ UNCHANGED autoCallTimeoutRef

Settle_NoFinalStatus(a, callResult) ==
  /\ a \in Attempts
  /\ employees' = employees
  /\ currentCallingId' = 0
  /\ Resume(a)
  /\ UNCHANGED <<isAutoCallActive, isAutoCallingRef, currentEmployeeIndex,
                 currentRound, loaded, resetting, roundTargets>>

Settle(a, callResult) ==
  /\ a \in Attempts
  /\ employees' = updateEmployeeStatus(employees, a.id,
                                       IF callResult THEN "answered" ELSE "missed")
  /\ currentCallingId' = 0
  /\ Resume(a)
  /\ UNCHANGED <<isAutoCallActive, isAutoCallingRef, currentEmployeeIndex,
                 currentRound, loaded, resetting, roundTargets>>

\* supabaseService.callClient(id) resolves with result.answered before the
\* deadline: resolved = true, clearTimeout(timeoutId)
TransportResult(a, answered) ==
  /\ Settle(a, answered)
  /\ lastOp' = "other"
  /\ UNCHANGED lateTransport
  /\ StatsEffect

\* supabaseService.callClient(id) rejects before the deadline
TransportError_Aborts(a) ==
  /\ a \in Attempts
  /\ employees' = updateEmployeeStatus(employees, a.id, "missed")
  /\ currentCallingId' = 0
  /\ IF a.owner = 0
     THEN /\ manualCalls' = manualCalls \ {a.id}
          /\ UNCHANGED chains
     ELSE /\ chains' = [chains EXCEPT ![a.owner] = IdleChain]
          /\ UNCHANGED manualCalls
  /\ lastOp' = "error"
  /\ UNCHANGED <<isAutoCallActive, isAutoCallingRef, autoCallTimeoutRef,
                 currentEmployeeIndex, currentRound, loaded, resetting, lateTransport, roundTargets>>
  /\ StatsEffect

TransportError(a) ==
  /\ Settle(a, FALSE)
  /\ lastOp' = "error"
  /\ UNCHANGED lateTransport
  /\ StatsEffect

\* The 10-second timer fires first: resolved = true, resolve(false).  The
\* callClient() promise stays outstanding; it may settle later or never.
Deadline_ManualOnly(a) ==
  /\ a.owner = 0
  /\ Settle(a, FALSE)
  /\ lastOp' = "timeout"
  /\ lateTransport' = IF Cardinality(lateTransport) < MaxLate
                       THEN lateTransport \cup {a.id} ELSE lateTransport
  /\ StatsEffect

Deadline(a) ==
  /\ Settle(a, FALSE)
  /\ lastOp' = "timeout"
  /\ lateTransport' = IF Cardinality(lateTransport) < MaxLate
                       THEN lateTransport \cup {a.id} ELSE lateTransport
  /\ StatsEffect

\* The callClient() promise of an attempt the deadline has settled resolves or
\* rejects: the callbacks find resolved = true and do nothing.
LateTransport_LastWriteWins(id, answered) ==
  /\ id \in lateTransport
  /\ lateTransport' = lateTransport \ {id}
  /\ employees' = updateEmployeeStatus(employees, id,
                                       IF answered THEN "answered" ELSE "missed")
  /\ lastOp' = "late"
  /\ UNCHANGED <<isAutoCallActive, isAutoCallingRef, autoCallTimeoutRef,
                 currentCallingId, currentEmployeeIndex, currentRound, chains,
                 manualCalls, loaded, resetting, roundTargets>>
  /\ StatsEffect

LateTransport(id, answered) ==
  /\ id \in lateTransport
  /\ lateTransport' = lateTransport \ {id}
  /\ lastOp' = "late"
  /\ UNCHANGED <<runVars, manualCalls, loaded, resetting, roundTargets>>
  /\ StatsEffect

\* ---- deleteContact ---------------------------------------------------------------
\* supabaseService.deleteClient(id) has resolved: the contact leaves the list
DeleteContact(employeeId) ==
  /\ employeeId \in IdSet(employees)
  /\ employees' = SelectSeq(employees, LAMBDA emp : emp.id # employeeId)
  /\ lastOp' = "delete"
  /\ UNCHANGED <<isAutoCallActive, isAutoCallingRef, autoCallTimeoutRef,
                 currentCallingId, currentEmployeeIndex, currentRound, chains,
                 manualCalls, loaded, resetting, lateTransport, roundTargets>>
  /\ StatsEffect

\* ---- resetSystem -----------------------------------------------------------------
\* The "Reset System" button is disabled while isAutoCallActive.  resetSystem
\* runs stopAutoCalling() and then awaits the store.
ResetBegin ==
  /\ loaded
  /\ ~resetting
  /\ ~isAutoCallActive
  /\ ApplyRunState(stopAutoCalling(RunState))
  /\ resetting' = TRUE
  /\ lastOp' = "resetBegin"
  /\ UNCHANGED <<manualCalls, loaded, lateTransport, roundTargets>>
  /\ StatsEffect

\* supabaseService.resetAllStatuses() rejects: the catch block only logs
ResetFailed ==
  /\ resetting
  /\ resetting' = FALSE
  /\ lastOp' = "resetFailed"
  /\ UNCHANGED <<runVars, manualCalls, loaded, lateTransport, roundTargets>>
  /\ StatsEffect

\* resetAllStatuses() and loadEmployees() have resolved: the store answers with
\* its contacts, every one pending and never called; then
\* setCurrentEmployeeIndex(0) and setStats(prev => ({...prev, currentRound: 1}))
ResetDone ==
  /\ resetting
  /\ resetting' = FALSE
  /\ employees' = [i \in DOMAIN employees |->
                     [id |-> employees[i].id, status |-> "pending", callAttempts |-> 0]]
  /\ currentEmployeeIndex' = 0
  /\ currentRound' = 1
  /\ lastOp' = "reset"
  /\ UNCHANGED <<isAutoCallActive, isAutoCallingRef, autoCallTimeoutRef,
                 currentCallingId, chains, manualCalls, loaded, lateTransport,
                 roundTargets>>
  /\ StatsEffect

AllAttempts == {[owner |-> o, id |-> i] : o \in {0} \cup ChainIds, i \in Ids}

Next ==
  \/ LoadEmployees
  \/ Start
  \/ Stop
  \/ \E c \in ChainIds : DispatchStep(c)
  \/ \E id \in Ids : ManualCall(id)
  \/ \E a \in AllAttempts : \E answered \in BOOLEAN : TransportResult(a, answered)
  \/ \E a \in AllAttempts : TransportError(a)
  \/ \E a \in AllAttempts : Deadline(a)
  \/ \E id \in Ids : \E answered \in BOOLEAN : LateTransport(id, answered)

Spec == Init /\ [][Next]_vars

\* Runs without manual calls from the client cards.
NextNoManual ==
  \/ LoadEmployees
  \/ Start
  \/ Stop
  \/ \E c \in ChainIds : DispatchStep(c)
  \/ \E a \in AllAttempts : \E answered \in BOOLEAN : TransportResult(a, answered)
  \/ \E a \in AllAttempts : TransportError(a)
  \/ \E a \in AllAttempts : Deadline(a)

SpecNoManual == Init /\ [][NextNoManual]_vars

\* Runs in which the transport never responds: every attempt ends at its deadline.
NextTimeouts ==
  \/ LoadEmployees
  \/ Start
  \/ Stop
  \/ \E c \in ChainIds : DispatchStep(c)
  \/ \E id \in Ids : ManualCall(id)
  \/ \E a \in AllAttempts : Deadline(a)

SpecTimeouts == Init /\ [][NextTimeouts]_vars

\* Runs without manual calls, in which the transport answers every call within
\* the deadline and start() may be clicked again while a call attempt of a
\* stopped run is still in flight.
NextRestart ==
  \/ LoadEmployees
  \/ StartAgain
  \/ Stop
  \/ \E c \in ChainIds : DispatchStep(c)
  \/ \E a \in AllAttempts : \E answered \in BOOLEAN : TransportResult(a, answered)

SpecRestart == Init /\ [][NextRestart]_vars

\* Runs without manual calls, in which the transport answers every call within
\* the deadline and the operator may delete contacts and reset the system.
NextEdits ==
  \/ LoadEmployees
  \/ Start
  \/ Stop
  \/ \E c \in ChainIds : DispatchStep(c)
  \/ \E a \in AllAttempts : \E answered \in BOOLEAN : TransportResult(a, answered)
  \/ \E id \in Ids : DeleteContact(id)
  \/ ResetBegin
  \/ ResetFailed
  \/ ResetDone

SpecEdits == Init /\ [][NextEdits]_vars

\* Timers fire: a pending dispatch step runs, and the 10-second deadline of
\* each attempt (every attempt has a timer of its own) expires unless the
\* transport settles the attempt first.  The transport itself owes nothing.
FairSpec ==
  /\ Init /\ [][Next]_vars
  /\ WF_vars(\E c \in ChainIds : DispatchStep(c))
  /\ \A a \in AllAttempts : WF_vars(Deadline(a))

TypeOK ==
  /\ \A i \in DOMAIN employees : employees[i].status \in Status
  /\ currentRound \in 1..MaxRound
  /\ autoCallTimeoutRef \in {0} \cup ChainIds
  /\ isAutoCallActive = isAutoCallingRef
  /\ (~isAutoCallingRef => autoCallTimeoutRef = 0)
  /\ (autoCallTimeoutRef # 0 => chains[autoCallTimeoutRef].pc # "idle")
  /\ (isAutoCallingRef => \E c \in ChainIds : chains[c].pc # "idle")

\* ---- vocabulary of the properties ------------------------------------------------
StatusOf(i) == employees[i].status
StatusOfId(id) ==
  IF id \in IdSet(employees) THEN employees[FindIndex(employees, id) + 1].status ELSE "none"
Calling == {i \in DOMAIN employees : StatusOf(i) = "calling"}
InFlightIds == {a.id : a \in Attempts}

\* chain c dials in this step / chain c starts the next round in this step
Dials(c) == chains[c].pc = "timer" /\ chains'[c].pc = "call"
StartsNextRound(c) ==
  /\ chains[c].pc = "timer" /\ chains'[c].pc = "timer"
  /\ chains[c].idx > 0 /\ chains'[c].idx = 0

\* what resetSystem leaves: Inactive, round 1, position 0, every contact pending
AllReset ==
  /\ ~isAutoCallActive
  /\ currentRound = 1
  /\ currentEmployeeIndex = 0
  /\ \A i \in DOMAIN employees : StatusOf(i) = "pending"

\* the timer callback of chain c runs in this step
RunsStep(c) == chains[c].pc = "timer" /\ chains'[c] # chains[c] /\ lastOp' # "stop"

\* chain c is about to run a dispatch step whose position is past its target list
AtBoundary(c) ==
  /\ chains[c].pc = "timer"
  /\ isAutoCallingRef
  /\ chains[c].idx >= Len(clientsToCall(chains[c]))

\* ---- C1 ---------------------------------------------------------------------------
\* C1: while an auto-call run is active, at most one contact has status
\* 'calling', whatever the interleaving of dispatch steps, results, deadlines,
\* stop()/start() and manual calls.
C1_AtMostOneCalling == isAutoCallActive => Cardinality(Calling) <= 1

C3_NoWriteAfterStop ==
  /\ [][lastOp' = "stop" => ~isAutoCallActive']_vars
  /\ [][(~isAutoCallingRef /\ chains' # chains) => employees' = employees]_vars

\* C3 (amended): after stop() the scheduler is Inactive at once; while it is
\* Inactive no chain dials or schedules a step, and the only write of a chain
\* is the outcome of the call attempt it had in flight, after which it ends.
C3_NoDialAfterStop ==
  /\ [][lastOp' = "stop" => (~isAutoCallActive' /\ ~isAutoCallingRef')]_vars
  /\ [][~isAutoCallingRef =>
          \A c \in ChainIds :
            /\ ~Dials(c)
            /\ (~isAutoCallingRef' => chains'[c].pc \in {chains[c].pc, "idle"})
            /\ (chains'[c] # chains[c] /\ employees' # employees
                  => /\ chains[c].pc = "call" /\ chains'[c].pc = "idle"
                     /\ \E st \in {"answered", "missed"} :
                          employees' = updateEmployeeStatus(employees, chains[c].callee, st))]_vars

C3_Witness == lastOp = "stop" /\ \E c \in ChainIds : chains[c].pc = "call"

\* ---- C4 ---------------------------------------------------------------------------
\* C4 (as claimed): stop() twice leaves the same state as stop() once, and
\* stop() on an Inactive scheduler changes nothing.
C4_StopChangesNothing ==
  /\ stopAutoCalling(stopAutoCalling(RunState)) = stopAutoCalling(RunState)
  /\ (~isAutoCallActive => stopAutoCalling(RunState) = RunState)

\* C4 (amended): stop() twice leaves the same state as stop() once, and stop()
\* on an Inactive scheduler changes nothing but the currently-calling marker,
\* which it clears.
C4_StopIdempotent ==
  /\ stopAutoCalling(stopAutoCalling(RunState)) = stopAutoCalling(RunState)
  /\ (~isAutoCallActive =>
        stopAutoCalling(RunState) = [RunState EXCEPT !.currentCallingId = 0])

C4_Witness == ~isAutoCallActive /\ lastOp = "stop" /\ manualCalls # {}

\* ---- C5 ---------------------------------------------------------------------------
\* C5: during a run the round number changes only in a dispatch step whose
\* position is past its target list while some contact is pending or missed,
\* and it then grows by exactly 1.
C5_RoundGrowsByOne ==
  [][(isAutoCallActive /\ isAutoCallActive' /\ currentRound' # currentRound) =>
       /\ currentRound' = currentRound + 1
       /\ Unanswered(employees) # <<>>
       /\ \E c \in ChainIds : AtBoundary(c) /\ chains'[c] # chains[c]]_vars

\* ---- C6 ---------------------------------------------------------------------------
\* C6: the target list of a dispatch step is the full contact list when the
\* round is 1, and the pending or missed contacts, in stored order, when the
\* round is 2 or more.
C6_TargetList ==
  \A c \in ChainIds :
    (chains[c].pc = "timer" /\ isAutoCallingRef) =>
      IdsOf(clientsToCall(chains[c])) =
        IF currentRound = 1 THEN IdsOf(employees) ELSE IdsOf(Unanswered(employees))

\* ---- C7 ---------------------------------------------------------------------------
\* C7: without manual calls, a round >= 2 dials the contacts that were pending
\* or missed when it began, each once and in stored order, and the round
\* number is incremented only after the last of them.
C7_RoundDialsItsTargets ==
  /\ [][\A c \in ChainIds :
          (Dials(c) /\ currentRound >= 2) =>
            /\ chains[c].idx < Len(roundTargets)
            /\ chains'[c].callee = roundTargets[chains[c].idx + 1]]_vars
  /\ [][\A c \in ChainIds :
          (StartsNextRound(c) /\ currentRound >= 2) =>
            chains[c].idx = Len(roundTargets)]_vars

\* ---- C8 ---------------------------------------------------------------------------
\* C8: when a round ends with every contact answered, the run stops there and
\* the round number is not incremented again.
C8_StopsWhenAllAnswered ==
  [][\A c \in ChainIds :
       (/\ AtBoundary(c)
        /\ chains'[c] # chains[c]
        /\ employees # <<>>
        /\ \A i \in DOMAIN employees : StatusOf(i) = "answered")
       => (~isAutoCallActive' /\ currentRound' = currentRound)]_vars

\* ---- C9 ---------------------------------------------------------------------------
\* C9: when no call attempt is ever answered, the scheduler never becomes
\* Inactive on its own, and while it is Inactive no chain dials.
C9_NeverStopsUnanswered ==
  /\ [](lastOp # "autostop")
  /\ [][~isAutoCallingRef => \A c \in ChainIds : ~Dials(c)]_vars

C11_StartDialsFirst ==
  /\ [][lastOp' = "start" =>
          (isAutoCallActive' /\ currentRound' = 1 /\ currentEmployeeIndex' = 0)]_vars
  /\ [][\A c \in ChainIds :
          (lastOp = "start" /\ Dials(c)) => chains'[c].callee = employees[1].id]_vars

\* ---- C12 --------------------------------------------------------------------------
\* C12: a call attempt resolves exactly once.  The step that settles it (the
\* transport result, the transport error or the deadline, whichever comes
\* first) writes one final status with one attempt-count increment, missed
\* when it is the error or the deadline; the transport answer that arrives
\* after the deadline changes no contact, marker, chain or flag.
C12_ResolvesOnce ==
  /\ [][lastOp' = "late" => UNCHANGED <<runVars, manualCalls>>]_vars
  /\ [][\A a \in Attempts :
          a \notin Attempts' =>
            /\ \E st \in {"answered", "missed"} :
                 employees' = updateEmployeeStatus(employees, a.id, st)
            /\ lastOp' \in {"timeout", "error"} =>
                 employees' = updateEmployeeStatus(employees, a.id, "missed")]_vars

C12_Witness ==
  /\ lastOp = "late"
  /\ lateTransport = {}
  /\ \E i \in DOMAIN employees : StatusOf(i) = "missed" /\ employees[i].callAttempts = 1

\* ---- C13 --------------------------------------------------------------------------
\* C13: with the deadline timers firing and a transport that may never respond,
\* a contact whose status is 'calling' eventually has status answered or missed.
C13_CallingResolves ==
  \A id \in Ids :
    (StatusOfId(id) = "calling") ~> (StatusOfId(id) \in {"answered", "missed"})

C13_Witness ==
  /\ lastOp = "timeout"
  /\ \E i \in DOMAIN employees : StatusOf(i) = "missed"
  /\ \A i \in DOMAIN employees : StatusOf(i) # "calling"

\* ---- C14 --------------------------------------------------------------------------
\* C14: an attempt that ends in a transport error or at its deadline marks the
\* contact missed and leaves the active flag as it was; when the attempt was
\* started by a dispatch step of a run that is still active, that chain
\* schedules the dispatch of the next position.
C14_FailureIsMissed ==
  [][lastOp' \in {"timeout", "error"} =>
       /\ isAutoCallActive' = isAutoCallActive
       /\ isAutoCallingRef' = isAutoCallingRef
       /\ \A a \in Attempts :
            a \notin Attempts' =>
              /\ StatusOfId(a.id)' = "missed"
              /\ (a.owner # 0 /\ isAutoCallingRef) =>
                   /\ chains'[a.owner].pc = "timer"
                   /\ chains'[a.owner].idx = chains[a.owner].idx + 1
                   /\ autoCallTimeoutRef' = a.owner]_vars

C14_Witness ==
  /\ lastOp = "error"
  /\ isAutoCallActive
  /\ \E c \in ChainIds :
       /\ chains[c].pc = "timer" /\ chains[c].idx = 1
       /\ StatusOfId(chains[c].employees[1].id) = "missed"

\* ---- C15 --------------------------------------------------------------------------
\* C15: while a run is active, the contact of the call attempt a dispatch step
\* has in flight has status 'calling' and is the currently-calling contact;
\* with no attempt in flight, no contact is 'calling' and the marker is null.
C15_CallingWhileInFlight ==
  /\ isAutoCallActive =>
       \A c \in ChainIds :
         chains[c].pc = "call" =>
           /\ StatusOfId(chains[c].callee) = "calling"
           /\ currentCallingId = chains[c].callee
  /\ Attempts = {} => (Calling = {} /\ currentCallingId = 0)

\* ---- C16 --------------------------------------------------------------------------
\* C16: when the scheduler goes from Active to Inactive by itself (not by
\* stop()), every contact has status answered in the resulting state.
C16_SelfStopAllAnswered ==
  [][(isAutoCallActive /\ ~isAutoCallActive' /\ lastOp' # "stop") =>
       \A i \in DOMAIN employees' : employees'[i].status = "answered"]_vars

\* ---- C17 --------------------------------------------------------------------------
\* C17: in a round >= 2 no dispatch step dials a contact whose status is
\* answered when the step runs.
C17_SkipsAnswered ==
  [][\A c \in ChainIds :
       (Dials(c) /\ currentRound >= 2) => StatusOfId(chains'[c].callee) # "answered"]_vars

\* ---- C18 --------------------------------------------------------------------------
\* C18: whenever the scheduler is Inactive, no dispatch timer (pre-roll,
\* inter-call or inter-round) is pending.
C18_NoTimerWhileInactive ==
  ~isAutoCallActive => \A c \in ChainIds : chains[c].pc # "timer"

\* ---- C19 --------------------------------------------------------------------------
\* C19: a dispatch step that runs while the liveness flag is false changes no
\* contact, round, position, marker or flag and sets no timer; a step that
\* resumes after its call attempt with the flag false sets no timer either.
C19_InactiveStepIsNoop ==
  /\ [][\A c \in ChainIds :
          (RunsStep(c) /\ ~isAutoCallingRef) =>
            /\ UNCHANGED <<employees, currentRound, currentEmployeeIndex, currentCallingId,
                           isAutoCallActive, isAutoCallingRef, autoCallTimeoutRef>>
            /\ chains' = [chains EXCEPT ![c] = IdleChain]]_vars
  /\ [][\A c \in ChainIds :
          (chains[c].pc = "call" /\ chains'[c].pc # "call" /\ ~isAutoCallingRef) =>
            /\ chains' = [chains EXCEPT ![c] = IdleChain]
            /\ autoCallTimeoutRef' = autoCallTimeoutRef]_vars

C19_Witness ==
  /\ lastOp = "noop"
  /\ ~isAutoCallingRef
  /\ \A c \in ChainIds : chains[c].pc = "idle"

\* ---- C20 --------------------------------------------------------------------------
\* C20: when the round number increments, a dispatch step with position 0 is
\* scheduled, and the target list that step runs against is the list of the
\* contacts that are pending or missed when it runs.
C20_FreshTargetsAfterIncrement ==
  /\ [][currentRound' > currentRound =>
          \E c \in ChainIds : chains'[c].pc = "timer" /\ chains'[c].idx = 0]_vars
  /\ [](\A c \in ChainIds :
          (chains[c].pc = "timer" /\ chains[c].idx = 0 /\ isAutoCallingRef /\ currentRound >= 2)
            => IdsOf(clientsToCall(chains[c])) = IdsOf(Unanswered(employees)))

\* ---- C21 --------------------------------------------------------------------------
\* C21: no two call attempts started by dispatch steps are in flight together.
C21_NoTwoAutoAttempts ==
  Cardinality({c \in ChainIds : chains[c].pc = "call"}) <= 1

\* ---- C22 --------------------------------------------------------------------------
\* C22: stop() leaves a call attempt a dispatch step has in flight alone; when
\* the attempt then resolves with the scheduler still stopped, its outcome is
\* written to the contact (answered or missed, one more attempt counted) and
\* the step ends without setting a timer.
C22_InFlightCompletes ==
  /\ [][lastOp' = "stop" =>
          \A c \in ChainIds : chains[c].pc = "call" => chains'[c] = chains[c]]_vars
  /\ [][\A c \in ChainIds :
          (chains[c].pc = "call" /\ chains'[c].pc # "call" /\ ~isAutoCallingRef) =>
            /\ \E st \in {"answered", "missed"} :
                 employees' = updateEmployeeStatus(employees, chains[c].callee, st)
            /\ \A id \in Ids :
                 id = chains[c].callee => StatusOfId(id)' \in {"answered", "missed"}
            /\ chains' = [chains EXCEPT ![c] = IdleChain]
            /\ autoCallTimeoutRef' = 0
            /\ ~isAutoCallActive']_vars

C22_Witness ==
  /\ lastOp = "timeout"
  /\ ~isAutoCallActive
  /\ \A c \in ChainIds : chains[c].pc = "idle"
  /\ \E i \in DOMAIN employees : StatusOf(i) = "missed"

\* ---- C23 --------------------------------------------------------------------------
\* C23: after stop() and start() during a call attempt of the earlier run, the
\* earlier run's step sets no timer when its call resolves: the dispatch
\* timers of two chains are never pending together.
C23_OneChainAfterRestart ==
  Cardinality({c \in ChainIds : chains[c].pc = "timer"}) <= 1

\* ---- C24 --------------------------------------------------------------------------
\* C24: the step at a round boundary decides on the current statuses: it stops
\* the run exactly when no contact is pending or missed at that moment.
C24_BoundaryReadsCurrent ==
  [][\A c \in ChainIds :
       (AtBoundary(c) /\ RunsStep(c)) =>
         (lastOp' = "autostop" <=> Unanswered(employees) = <<>>)]_vars

\* ---- C29 --------------------------------------------------------------------------
\* C29: stop() leaves every contact, the round number, the position and every
\* chain whose timer is not pending as they are (a contact that is 'calling'
\* stays 'calling'); it changes only the flag, the pending timer and the marker.
C29_StopFrame ==
  /\ [](LET t == stopAutoCalling(RunState) IN
          /\ t.employees = employees
          /\ t.currentRound = currentRound
          /\ t.currentEmployeeIndex = currentEmployeeIndex
          /\ \A c \in ChainIds : chains[c].pc # "timer" => t.chains[c] = chains[c])
  /\ [][lastOp' = "stop" =>
          /\ UNCHANGED <<employees, currentRound, currentEmployeeIndex, manualCalls>>
          /\ \A c \in ChainIds : chains[c].pc # "timer" => chains'[c] = chains[c]]_vars

C29_Witness ==
  /\ lastOp = "stop"
  /\ currentRound = 2
  /\ currentEmployeeIndex = 1
  /\ currentCallingId = 0
  /\ \E i \in DOMAIN employees : StatusOf(i) = "calling"

\* ---- C25 --------------------------------------------------------------------------
\* C25: a dispatch step that runs during an active run while the contact list
\* is empty ends the run: the scheduler is Inactive after the step.
C25_EmptyListEndsRun ==
  [][\A c \in ChainIds :
       (RunsStep(c) /\ isAutoCallingRef /\ Len(employees) = 0) => ~isAutoCallActive']_vars

\* ---- C26 --------------------------------------------------------------------------
\* C26: a status update for an id that matches no contact leaves every contact
\* unchanged; when the attempt of a chain resolves for such an id the contacts
\* stay as they are and, the run being active, the chain's timer is set for
\* the next position.
C26_UnknownIdSkipped ==
  /\ [](\A id \in Ids \ IdSet(employees) : \A st \in Status :
          updateEmployeeStatus(employees, id, st) = employees)
  /\ [][\A c \in ChainIds :
          (chains[c].pc = "call" /\ chains'[c].pc # "call"
             /\ chains[c].callee \notin IdSet(employees)) =>
            /\ employees' = employees
            /\ isAutoCallingRef =>
                  /\ chains'[c].pc = "timer"
                  /\ chains'[c].idx = chains[c].idx + 1
                  /\ autoCallTimeoutRef' = c]_vars

C26_Witness ==
  /\ lastOp = "other"
  /\ Len(employees) >= 1
  /\ \E c \in ChainIds :
       /\ chains[c].pc = "timer"
       /\ chains[c].idx >= 1
       /\ chains[c].idx <= Len(clientsToCall(chains[c]))
       /\ clientsToCall(chains[c])[chains[c].idx].id \notin IdSet(employees)

\* ---- C27 --------------------------------------------------------------------------
\* C27: the step in which a call attempt completes (answered, missed, timed
\* out or failed) writes answered or missed to its contact and adds exactly 1
\* to that contact's callAttempts (counted up to MaxAttempts), and leaves every
\* other contact as it was; a step that sets a contact to 'calling' changes no
\* callAttempts and no other status.
C27_AttemptCounted ==
  /\ [][\A a \in Attempts : a \notin Attempts' =>
          \A i \in DOMAIN employees :
            IF employees[i].id = a.id
            THEN /\ employees'[i].status \in {"answered", "missed"}
                 /\ employees'[i].callAttempts =
                      IF employees[i].callAttempts < MaxAttempts
                      THEN employees[i].callAttempts + 1 ELSE MaxAttempts
            ELSE employees'[i] = employees[i]]_vars
  /\ [][(lastOp' = "manual" \/ \E c \in ChainIds : Dials(c)) =>
          /\ \E i \in DOMAIN employees : employees'[i].status = "calling"
          /\ \A i \in DOMAIN employees :
               \/ employees'[i] = employees[i]
               \/ employees'[i] = [employees[i] EXCEPT !.status = "calling"]
          /\ Cardinality({i \in DOMAIN employees : employees'[i] # employees[i]}) <= 1]_vars

C27_Witness ==
  /\ lastOp = "timeout"
  /\ \E i \in DOMAIN employees : \E j \in DOMAIN employees :
       /\ employees[i].status = "missed" /\ employees[i].callAttempts = 1
       /\ employees[j].status = "pending" /\ employees[j].callAttempts = 0

\* ---- C28 --------------------------------------------------------------------------
\* C28: the summary counts the current contacts: totalEmployees is their
\* number, answered, missed and pending the numbers in those statuses, so the
\* three add up to totalEmployees minus the number of contacts in 'calling'.
C28_SummaryMatches ==
  /\ stats.totalEmployees = Len(employees)
  /\ stats.answered = Cardinality({i \in DOMAIN employees : StatusOf(i) = "answered"})
  /\ stats.missed = Cardinality({i \in DOMAIN employees : StatusOf(i) = "missed"})
  /\ stats.pending = Cardinality({i \in DOMAIN employees : StatusOf(i) = "pending"})
  /\ stats.answered + stats.missed + stats.pending = stats.totalEmployees - Cardinality(Calling)

C28_Witness ==
  /\ lastOp = "delete"
  /\ stats.totalEmployees = 1
  /\ Cardinality(Calling) = 1
  /\ stats.answered + stats.missed + stats.pending = 0

\* ---- C30 --------------------------------------------------------------------------
\* C30: once resetSystem() has completed with the scheduler Inactive, round 1,
\* position 0 and every contact pending, the next step, unless it is a start()
\* or a manual call, leaves all of that true.
C30_ResetStays ==
  [][(lastOp = "reset" /\ AllReset /\ lastOp' \notin {"start", "manual"}) => AllReset']_vars
====
